---- MODULE Spec2Model ----
(***************************************************************************)
(* A model of the lsh command interpreter (latest revision of the shell:   *)
(* read loop, tokenizer, builtin dispatch, launcher, output redirection).  *)
(*                                                                         *)
(* A C string is a sequence of one-character strings; the bell character   *)
(* is written "BEL".  A NULL pointer is the value NULL.  An argument       *)
(* vector is the sequence of the tokens that precede its first NULL.       *)
(* Output is a sequence of strings too: the text of a format string is     *)
(* kept as one element, every newline is an element of its own, and what   *)
(* a %s prints is the characters of its argument.                          *)
(***************************************************************************)
EXTENDS Integers, Sequences, FiniteSets, TLC

VARIABLES
    pc,                  \* position of the interpreter process in lsh_loop / lsh_execute
    eof,                 \* stdin has reached end-of-input
    nread,               \* number of lsh_read_line calls made so far
    line,                \* the buffer lsh_read_line returned
    args,                \* the argument vector (tokens before the first NULL)
    status,              \* lsh_loop's status / lsh_execute's result
    redirection_applied, \* lsh_execute's local: return value of lsh_redirect
    saved_stdout,        \* lsh_execute's local: descriptor saved by lsh_redirect
    fdt,                 \* the interpreter's descriptor table
    obuf,                \* bytes pending in the interpreter's stdio buffer of stdout
    bufmode,             \* buffering of stdout: "line" or "full"
    flushOnRead,         \* a read of stdin flushes a line-buffered stdout
    out0,                \* bytes delivered to the stream descriptor 1 designated at startup
    files,               \* the regular files: absolute path -> content
    err,                 \* messages delivered to the error stream
    cwd,                 \* the interpreter's working directory (absolute path)
    child,               \* the process forked by lsh_launch
    exitcode,            \* exit code of the interpreter process once it ended
    call                 \* history of the current lsh_execute call (events, snapshots)

vars == <<pc, eof, nread, line, args, status, redirection_applied, saved_stdout,
          fdt, obuf, bufmode, flushOnRead, out0, files, err, cwd, child,
          exitcode, call>>

-----------------------------------------------------------------------------
(* Bounds *)

MaxLines == 2      \* lsh_read_line calls explored per run
MaxLen   == 5      \* length of the lines the tokenizer is explored on
MaxStops == 1      \* stop notifications a child may cause
MaxFd    == 5      \* descriptors 0..MaxFd exist in the descriptor table
MaxToks  == 4      \* tokens of the lines lsh_redirect is explored on

-----------------------------------------------------------------------------
(* Characters and strings *)

\* the null pointer: no string equals it (a string has one-character elements)
NULL == <<"NULL">>

BEL == "BEL"

\* #define LSH_TOK_DELIM " \t\r\n\a"
LSH_TOK_DELIM == {" ", "\t", "\r", "\n", BEL}

Min(S) == CHOOSE m \in S : \A n \in S : m <= n

\* the largest element of a set of positive numbers, 0 for the empty set
Max0(S) == IF S = {} THEN 0 ELSE CHOOSE m \in S : \A n \in S : m >= n

\* strspn(s + p - 1, delim): index of the first character at or after p that
\* is not in delim (Len(s) + 1 at the terminator)
SkipIn(s, p, delim) ==
    Min({i \in p..Len(s) : s[i] \notin delim} \cup {Len(s) + 1})

\* strcspn(s + p - 1, delim): index of the first character at or after p that
\* is in delim (Len(s) + 1 at the terminator)
SkipOut(s, p, delim) ==
    Min({i \in p..Len(s) : s[i] \in delim} \cup {Len(s) + 1})

\* strtok that does not skip the delimiters in front of a token
strtok_noskip(s, p, delim) ==
    LET e == SkipOut(s, p, delim)
    IN  IF p > Len(s) THEN [token |-> NULL, next |-> p]
        ELSE [token |-> SubSeq(s, p, e - 1),
              next  |-> IF e > Len(s) THEN e ELSE e + 1]

\* strtok(line, delim) started at the saved position p: the token and the
\* new saved position, or NULL
strtok(s, p, delim) ==
    LET b == SkipIn(s, p, delim)
        e == SkipOut(s, b, delim)
    IN  IF b > Len(s) THEN [token |-> NULL, next |-> b]
        ELSE [token |-> SubSeq(s, b, e - 1),
              next  |-> IF e > Len(s) THEN e ELSE e + 1]

RECURSIVE split_from(_, _, _)
split_from(s, p, tokens) ==
    LET t == strtok(s, p, LSH_TOK_DELIM)
    IN  IF t.token = NULL THEN tokens
        ELSE split_from(s, t.next, Append(tokens, t.token))

\* char **lsh_split_line(char *line)
lsh_split_line(s) == split_from(s, 1, <<>>)

-----------------------------------------------------------------------------
(* Words of the command language and of the file system *)

NL == <<"\n">>

W_cd    == <<"c", "d">>
W_help  == <<"h", "e", "l", "p">>
W_exit  == <<"e", "x", "i", "t">>
W_type  == <<"t", "y", "p", "e">>
W_echo  == <<"e", "c", "h", "o">>
W_pwd   == <<"p", "w", "d">>
W_gt    == <<">">>
W_gtgt  == <<">", ">">>
W_ls    == <<"l", "s">>
W_nope  == <<"n", "o", "p", "e">>

\* char *builtin_str[]
builtin_str == <<W_cd, W_help, W_exit, W_type, W_echo, W_pwd>>

\* int lsh_num_builtins()
lsh_num_builtins == Len(builtin_str)

\* the directories that exist, as absolute paths; LongDir is a directory
\* whose path is longer than the buffer lsh_pwd hands to getcwd
Root    == <<"/">>
DirD    == <<"/", "d">>
LongDir == [i \in 1..1200 |-> IF i % 200 = 1 THEN "/" ELSE "x"]
Dirs    == {Root, DirD, LongDir}

\* the programs execvp can locate
Programs == {W_ls}

\* what a located program writes to its standard output
ProgOut == <<"ls-output", "\n">>

\* resolution of a path name against a working directory
Resolve(dir, path) ==
    IF path[1] = "/" THEN path
    ELSE IF dir = Root THEN dir \o path
    ELSE dir \o <<"/">> \o path

-----------------------------------------------------------------------------
(* Descriptors, streams and the stdio buffer of stdout *)

Closed   == [type |-> "closed", name |-> <<>>]
StdinD   == [type |-> "stdin",  name |-> <<>>]
OrigOut  == [type |-> "orig",   name |-> <<>>]
StderrD  == [type |-> "stderr", name |-> <<>>]
FileD(path) == [type |-> "file", name |-> path]

STDOUT_FILENO == 1

Fds == 0..MaxFd

OpenFds(t) == {fd \in Fds : t[fd] # Closed}

\* the lowest descriptor not in use, -1 when the table is full
LowestFree(t) ==
    IF \E fd \in Fds : t[fd] = Closed
    THEN Min({fd \in Fds : t[fd] = Closed})
    ELSE -1

\* write(2) of bytes on an open file description: the streams afterwards
Deliver(d, bytes, o, fs) ==
    IF d.type = "orig" THEN [out0 |-> o \o bytes, files |-> fs]
    ELSE IF d.type = "file" /\ d.name \in DOMAIN fs
         THEN [out0 |-> o, files |-> [fs EXCEPT ![d.name] = @ \o bytes]]
    ELSE [out0 |-> o, files |-> fs]

\* index of the last newline of a byte sequence, 0 if there is none
LastNL(b) ==
    IF \E i \in 1..Len(b) : b[i] = "\n"
    THEN CHOOSE i \in 1..Len(b) : b[i] = "\n" /\ \A j \in (i+1)..Len(b) : b[j] # "\n"
    ELSE 0

\* printf on stdout: the bytes written out at once and the bytes kept in
\* the buffer; a line-buffered stream writes out through the last newline
\* (the buffer never fills up on the runs explored)
Printf(buf, bytes, mode) ==
    LET all == buf \o bytes
        k   == IF mode = "line" /\ LastNL(bytes) > 0 THEN LastNL(all) ELSE 0
    IN  [flush |-> SubSeq(all, 1, k), keep |-> SubSeq(all, k + 1, Len(all))]

-----------------------------------------------------------------------------
(* The builtins.  A handler yields its return value, the bytes it prints   *)
(* on stdout, the messages it prints on stderr and the working directory   *)
(* it leaves.                                                              *)

\* args[k] of the C code (k counts from 0); NULL at and past the terminator
Arg(a, k) == IF k + 1 <= Len(a) THEN a[k + 1] ELSE NULL

Effect(r, o, e, d) == [ret |-> r, out |-> o, errs |-> e, cwd |-> d]

\* perror("lsh") with errno e
Perror(e) == <<"lsh: " \o e>>

\* chdir(path) in working directory dir: the errno, "" on success
chdir(dir, path) ==
    IF Resolve(dir, path) \in Dirs THEN "" ELSE "ENOENT"

\* a cd that goes to the root directory when it has no argument
lsh_cd_home(a, dir) ==
    IF Arg(a, 1) = NULL
    THEN Effect(1, <<>>, <<>>, Root)
    ELSE IF chdir(dir, Arg(a, 1)) # ""
         THEN Effect(1, <<>>, Perror(chdir(dir, Arg(a, 1))), dir)
         ELSE Effect(1, <<>>, <<>>, Resolve(dir, Arg(a, 1)))

\* int lsh_cd(char **args)
lsh_cd(a, dir) ==
    IF Arg(a, 1) = NULL
    THEN Effect(1, <<>>, <<"lsh: expected argument to \"cd\"\n">>, dir)
    ELSE IF chdir(dir, Arg(a, 1)) # ""
         THEN Effect(1, <<>>, Perror(chdir(dir, Arg(a, 1))), dir)
         ELSE Effect(1, <<>>, <<>>, Resolve(dir, Arg(a, 1)))

RECURSIVE help_names(_)
help_names(i) ==
    IF i > lsh_num_builtins THEN <<>>
    ELSE builtin_str[i] \o NL \o help_names(i + 1)

\* int lsh_help(char **args)
lsh_help(a, dir) ==
    Effect(1,
           <<"LSH", "\n",
             "Type program names and arguments, hit enter.", "\n",
             "The following are built in :", "\n">>
           \o help_names(1)
           \o <<"> and >>", "\n",
                "Use the man command for information on other programs.", "\n">>,
           <<>>, dir)

\* an exit handler that returns the "continue" status
lsh_exit_continue(a, dir) == Effect(1, <<>>, <<>>, dir)

\* int lsh_exit(char **args)
lsh_exit(a, dir) == Effect(0, <<>>, <<>>, dir)

\* a type that scans a table one entry shorter than the dispatch table
lsh_type_short(a, dir) ==
    IF Arg(a, 1) = NULL
    THEN Effect(1, <<>>, <<"lsh: expected argument to \"type\" \n">>, dir)
    ELSE IF \E i \in 1..(lsh_num_builtins - 1) : Arg(a, 1) = builtin_str[i]
         THEN Effect(1, Arg(a, 1) \o <<" is a shell builtin ", "\n">>, <<>>, dir)
         ELSE Effect(1, <<"lsh: ">> \o Arg(a, 1) \o <<" not found ", "\n">>, <<>>, dir)

\* int lsh_type(char **args)
lsh_type(a, dir) ==
    IF Arg(a, 1) = NULL
    THEN Effect(1, <<>>, <<"lsh: expected argument to \"type\" \n">>, dir)
    ELSE IF \E i \in 1..lsh_num_builtins : Arg(a, 1) = builtin_str[i]
         THEN Effect(1, Arg(a, 1) \o <<" is a shell builtin ", "\n">>, <<>>, dir)
         ELSE Effect(1, <<"lsh: ">> \o Arg(a, 1) \o <<" not found ", "\n">>, <<>>, dir)

\* printf("%.*s", p, str): at most p characters of str, all of it when p
\* is negative
Precision(str, p) ==
    IF p < 0 \/ p >= Len(str) THEN str ELSE SubSeq(str, 1, p)

\* one iteration of lsh_echo's while loop, for args[i]
echo_arg(a, i, check) ==
    LET s == Arg(a, i)
        n == Len(s)
    IN  IF s[1] = check /\ s[n] = check THEN Precision(Tail(s), n - 2)
        ELSE IF i = 1 /\ Arg(a, 1)[1] = check THEN Tail(s) \o <<" ">>
        ELSE IF Arg(a, i + 1) = NULL /\ s[n] = check THEN Precision(s, n - 1)
        ELSE s \o <<" ">>

RECURSIVE echo_from(_, _, _)
echo_from(a, i, check) ==
    IF Arg(a, i) = NULL THEN <<>>
    ELSE echo_arg(a, i, check) \o echo_from(a, i + 1, check)

\* the values the local `check` of lsh_echo can hold when the loop starts:
\* the quote args[1] begins with, else whatever the stack held (it is read
\* uninitialised): any character of the arguments, or one that is in none
CheckValues(a) ==
    IF Arg(a, 1) = NULL THEN {"\\0"}
    ELSE IF Arg(a, 1)[1] = "'" THEN {"'"}
    ELSE IF Arg(a, 1)[1] = "\"" THEN {"\""}
    ELSE {a[j][1] : j \in 2..Len(a)} \cup {a[j][Len(a[j])] : j \in 2..Len(a)}
         \cup {"\\0"}

\* int lsh_echo(char **args)
lsh_echo(a, dir, check) ==
    IF Arg(a, 1) = NULL THEN Effect(1, NL, <<>>, dir)
    ELSE Effect(1, echo_from(a, 1, check) \o NL, <<>>, dir)

\* size of the buffer lsh_pwd passes to getcwd
PWD_BUFSIZE == 1024

\* getcwd(directory, size): the errno, "" on success
getcwd(dir, size) == IF Len(dir) + 1 > size THEN "ERANGE" ELSE ""

\* int lsh_pwd(char **args)   (an allocation failure is not modelled)
lsh_pwd(a, dir) ==
    IF getcwd(dir, PWD_BUFSIZE) # ""
    THEN Effect(1, <<>>, Perror(getcwd(dir, PWD_BUFSIZE)), dir)
    ELSE Effect(1, dir \o NL, <<>>, dir)

\* int (*builtin_func[])(char **): the handler at index i, run on args
builtin_func(i, a, dir, check) ==
    CASE i = 1 -> lsh_cd(a, dir)
      [] i = 2 -> lsh_help(a, dir)
      [] i = 3 -> lsh_exit(a, dir)
      [] i = 4 -> lsh_type(a, dir)
      [] i = 5 -> lsh_echo(a, dir, check)
      [] i = 6 -> lsh_pwd(a, dir)

-----------------------------------------------------------------------------
(* Redirection *)

\* the directory a path lies in
Parent(path) ==
    LET k == Max0({i \in 1..Len(path) : path[i] = "/"})
    IN  IF k = 0 THEN <<>> ELSE IF k = 1 THEN Root ELSE SubSeq(path, 1, k - 1)

\* open(filename, O_WRONLY | O_CREAT | ..., 0644) in working directory dir:
\* the errno, "" on success
open_errno(dir, filename, t) ==
    IF filename = NULL THEN "EFAULT"
    ELSE IF Resolve(dir, filename) \in Dirs THEN "EISDIR"
    ELSE IF Parent(Resolve(dir, filename)) \notin Dirs THEN "ENOENT"
    ELSE IF LowestFree(t) = -1 THEN "EMFILE"
    ELSE ""

\* the files after a successful open: O_CREAT makes the file, O_TRUNC
\* empties it, O_APPEND leaves its content
open_files(path, append, fs) ==
    IF path \in DOMAIN fs /\ append THEN fs
    ELSE (path :> <<>>) @@ fs

\* dup(oldfd): the new descriptor (-1 on failure) and the table
dup(t, oldfd) ==
    LET n == LowestFree(t)
    IN  IF n = -1 \/ oldfd \notin Fds \/ t[oldfd] = Closed
        THEN [fd |-> -1, fdt |-> t]
        ELSE [fd |-> n, fdt |-> [t EXCEPT ![n] = t[oldfd]]]

\* dup2(oldfd, newfd): the table afterwards (unchanged when oldfd is not open)
dup2(t, oldfd, newfd) ==
    IF oldfd \notin Fds \/ t[oldfd] = Closed THEN t
    ELSE [t EXCEPT ![newfd] = t[oldfd]]

\* close(fd): the table afterwards (unchanged when fd is not open)
close(t, fd) ==
    IF fd \notin Fds THEN t ELSE [t EXCEPT ![fd] = Closed]

\* a scan that stops at the rightmost operator
redirect_scan_rightmost(a) ==
    IF \E i \in 0..(Len(a) - 1) : Arg(a, i) = W_gt \/ Arg(a, i) = W_gtgt
    THEN Max0({i \in 0..(Len(a) - 1) : Arg(a, i) = W_gt \/ Arg(a, i) = W_gtgt})
    ELSE Len(a)

\* the while loop of lsh_redirect: index (from 0) of the leftmost element
\* that is ">" or ">>", the index of the terminator if there is none
redirect_scan(a) ==
    Min({i \in 0..(Len(a) - 1) : Arg(a, i) = W_gt \/ Arg(a, i) = W_gtgt}
        \cup {Len(a)})

\* a cut that leaves the operator in the vector
truncate_after(a, i) == SubSeq(a, 1, i + 1)

\* args[i] = 0: the vector ends before index i (counted from 0)
truncate(a, i) == SubSeq(a, 1, i)

\* int lsh_redirect(char **args, int *saved_stdout)
lsh_redirect(a, saved, dir, t, fs) ==
    LET i        == redirect_scan(a)
        append   == Arg(a, i) = W_gtgt
        filename == Arg(a, i + 1)
        cut      == truncate(a, i)
        e        == open_errno(dir, filename, t)
        path     == Resolve(dir, filename)
        fd       == LowestFree(t)
        t1       == [t EXCEPT ![fd] = FileD(path)]
        d        == dup(t1, STDOUT_FILENO)
        t2       == close(dup2(d.fdt, fd, STDOUT_FILENO), fd)
    IN  IF Arg(a, i) = NULL
        THEN [ret |-> 0, args |-> a, saved |-> saved, fdt |-> t, files |-> fs,
              errs |-> <<>>, target |-> NULL, append |-> FALSE]
        ELSE IF e # ""
        THEN [ret |-> -1, args |-> cut, saved |-> saved, fdt |-> t, files |-> fs,
              errs |-> Perror(e), target |-> NULL, append |-> append]
        ELSE [ret |-> 1, args |-> cut, saved |-> d.fd, fdt |-> t2,
              files |-> open_files(path, append, fs),
              errs |-> <<>>, target |-> path, append |-> append]

-----------------------------------------------------------------------------
(* The input lines the interpreter is run on *)

SP == <<" ">>

W_a == <<"a">>
W_b == <<"b">>
W_f == <<"f">>
W_d == <<"d">>
W_x == <<"x">>

L_empty       == <<>>
L_blank       == <<" ", "\t", " ">>
L_blank2      == <<"\r", BEL>>
L_echo        == W_echo
L_echo_a_b    == W_echo \o <<" ", " ">> \o W_a \o <<"\t">> \o W_b
L_echo_a_gt_f == W_echo \o SP \o W_a \o SP \o W_gt \o SP \o W_f
L_echo_a_ap_f == W_echo \o SP \o W_a \o SP \o W_gtgt \o SP \o W_f
L_echo_a_gt   == W_echo \o SP \o W_a \o SP \o W_gt
L_echo_gt_dir == W_echo \o SP \o W_a \o SP \o W_gt \o SP \o DirD
L_gt_f        == W_gt \o SP \o W_f
L_cd          == W_cd
L_cd_d        == W_cd \o SP \o W_d
L_cd_absd     == W_cd \o SP \o DirD
L_cd_x        == W_cd \o SP \o W_x
L_cd_long     == W_cd \o SP \o LongDir
L_pwd         == W_pwd
L_pwd_gt_f    == W_pwd \o SP \o W_gt \o SP \o W_f
L_exit        == W_exit
L_exit_gt_f   == W_exit \o SP \o W_gt \o SP \o W_f
L_ls          == W_ls
L_ls_gt_f     == W_ls \o SP \o W_gt \o SP \o W_f
L_nope        == W_nope
L_nope_gt_f   == W_nope \o SP \o W_gtgt \o SP \o W_f
L_help        == W_help
L_type_cd     == W_type \o SP \o W_cd
L_type        == W_type
L_type_ls     == W_type \o SP \o W_ls
L_type_pwd    == W_type \o SP \o W_pwd
L_echo_gt_f_b == W_echo \o SP \o W_a \o SP \o W_gt \o SP \o W_f \o SP \o W_b
L_pw          == <<"p", "w">>
L_cdd         == <<"c", "d", "d">>

Lines == {L_empty, L_blank, L_blank2, L_echo, L_echo_a_b, L_echo_a_gt_f, L_echo_a_ap_f,
          L_echo_a_gt, L_echo_gt_dir, L_gt_f, L_cd, L_cd_d, L_cd_absd, L_cd_x,
          L_cd_long, L_pwd, L_pwd_gt_f, L_exit, L_exit_gt_f, L_ls, L_ls_gt_f,
          L_nope, L_nope_gt_f, L_help, L_type_cd, L_type, L_type_ls,
          L_type_pwd, L_echo_gt_f_b, L_pw, L_cdd}

\* the content a file may have before the interpreter starts
OldContent == <<"old", "\n">>

-----------------------------------------------------------------------------
(* The processes *)

EXIT_SUCCESS == 0
EXIT_FAILURE == 1

NoChild == [state |-> "none", fd1 |-> Closed, cwd |-> <<>>, obuf |-> <<>>,
            argv |-> <<>>, code |-> -1, stops |-> 0, reported |-> FALSE]

\* what is remembered of the lsh_execute call in progress
NoCall == [events |-> <<>>, written |-> <<>>, handler |-> 0, argv |-> <<>>,
           fd1 |-> Closed, cwd |-> <<>>, files |-> <<>>, fds |-> {},
           nerr |-> 0, target |-> NULL, append |-> FALSE]

Init ==
    /\ pc = "prompt"
    /\ eof = FALSE
    /\ nread = 0
    /\ line = <<>>
    /\ args = <<>>
    /\ status = 1
    /\ redirection_applied = 0
    /\ saved_stdout = -1
    /\ fdt = [fd \in Fds |-> CASE fd = 0 -> StdinD
                               [] fd = 1 -> OrigOut
                               [] fd = 2 -> StderrD
                               [] OTHER  -> Closed]
    /\ obuf = <<>>
    /\ bufmode \in {"line", "full"}
    /\ flushOnRead \in (IF bufmode = "line" THEN BOOLEAN ELSE {FALSE})
    /\ out0 = <<>>
    /\ files \in {<<>>, (Resolve(Root, W_f) :> OldContent)}
    /\ err = <<>>
    /\ cwd = Root
    /\ child = NoChild
    /\ exitcode = -1
    /\ call = NoCall

\* lsh_loop: printf("$ > ")
Prompt ==
    /\ pc = "prompt"
    /\ nread < MaxLines
    /\ LET p == Printf(obuf, <<"$ > ">>, bufmode)
           w == Deliver(fdt[STDOUT_FILENO], p.flush, out0, files)
       IN  /\ obuf' = p.keep
           /\ out0' = w.out0
           /\ files' = w.files
    /\ pc' = "read"
    /\ UNCHANGED <<eof, nread, line, args, status, redirection_applied,
                   saved_stdout, fdt, bufmode, flushOnRead, err, cwd, child,
                   exitcode, call>>

\* lsh_read_line: the characters up to the next newline or to end-of-input;
\* at end-of-input the buffer is empty, and stays so on every later call
\* (a last line without its newline reads like that line followed by
\* end-of-input).  Filling the buffer of stdin writes out a line-buffered
\* stdout first when flushOnRead holds.
lsh_read_line(l, end) ==
    /\ pc = "read"
    /\ IF eof THEN end /\ l = <<>> ELSE (end => l = <<>>)
    /\ LET f == IF flushOnRead /\ bufmode = "line" THEN obuf ELSE <<>>
           w == Deliver(fdt[STDOUT_FILENO], f, out0, files)
       IN  /\ obuf' = IF flushOnRead /\ bufmode = "line" THEN <<>> ELSE obuf
           /\ out0' = w.out0
           /\ files' = w.files
    /\ line' = l
    /\ eof' = end
    /\ nread' = nread + 1
    /\ pc' = "split"
    /\ UNCHANGED <<args, status, redirection_applied, saved_stdout, fdt,
                   bufmode, flushOnRead, err, cwd, child, exitcode, call>>

\* lsh_loop: args = lsh_split_line(line)
Split ==
    /\ pc = "split"
    /\ args' = lsh_split_line(line)
    /\ pc' = "execute"
    /\ call' = [NoCall EXCEPT !.fd1 = fdt[STDOUT_FILENO], !.cwd = cwd,
                              !.files = files, !.fds = OpenFds(fdt),
                              !.nerr = Len(err)]
    /\ UNCHANGED <<eof, nread, line, status, redirection_applied, saved_stdout,
                   fdt, obuf, bufmode, flushOnRead, out0, files, err, cwd,
                   child, exitcode>>

\* lsh_execute without its test of args[0] against NULL
ExecuteEnterUnchecked ==
    /\ pc = "execute"
    /\ LET r == lsh_redirect(args, -1, cwd, fdt, files)
       IN  /\ redirection_applied' = r.ret
           /\ saved_stdout' = r.saved
           /\ args' = r.args
           /\ fdt' = r.fdt
           /\ files' = r.files
           /\ err' = err \o r.errs
           /\ call' = [call EXCEPT !.events = Append(@, "redirect"),
                                   !.target = r.target,
                                   !.append = r.append]
           /\ pc' = "dispatch"
    /\ UNCHANGED <<eof, nread, line, status, obuf, bufmode, flushOnRead, out0,
                   cwd, child, exitcode>>

\* lsh_execute, to the end of the call of lsh_redirect
ExecuteEnter ==
    /\ pc = "execute"
    /\ IF Arg(args, 0) = NULL
       THEN /\ status' = 1
            /\ pc' = "loopend"
            /\ call' = [call EXCEPT !.events = Append(@, "return")]
            /\ UNCHANGED <<args, redirection_applied, saved_stdout, fdt, files, err>>
       ELSE LET r == lsh_redirect(args, -1, cwd, fdt, files)
            IN  /\ redirection_applied' = r.ret
                /\ saved_stdout' = r.saved
                /\ args' = r.args
                /\ fdt' = r.fdt
                /\ files' = r.files
                /\ err' = err \o r.errs
                /\ call' = [call EXCEPT !.events = Append(@, "redirect"),
                                        !.target = r.target,
                                        !.append = r.append]
                /\ pc' = "dispatch"
                /\ UNCHANGED status
    /\ UNCHANGED <<eof, nread, line, obuf, bufmode, flushOnRead, out0, cwd,
                   child, exitcode>>

\* does string p begin string q
IsPrefix(p, q) == Len(p) <= Len(q) /\ SubSeq(q, 1, Len(p)) = p

\* a scan that compares only the first strlen(args[0]) characters
builtin_match_prefix(a) ==
    IF \E i \in 1..lsh_num_builtins : IsPrefix(Arg(a, 0), builtin_str[i])
    THEN Min({i \in 1..lsh_num_builtins : IsPrefix(Arg(a, 0), builtin_str[i])})
    ELSE 0

\* the for loop of lsh_execute: index of the first builtin name that
\* strcmp finds equal to args[0], 0 if there is none
builtin_match(a) ==
    IF \E i \in 1..lsh_num_builtins : builtin_str[i] = Arg(a, 0)
    THEN Min({i \in 1..lsh_num_builtins : builtin_str[i] = Arg(a, 0)})
    ELSE 0

\* lsh_execute: a builtin name matches, its handler runs and returns
DispatchBuiltin ==
    /\ pc = "dispatch"
    /\ Arg(args, 0) # NULL
    /\ builtin_match(args) # 0
    /\ \E check \in (IF builtin_match(args) = 5 THEN CheckValues(args) ELSE {"\\0"}) :
         LET eff == builtin_func(builtin_match(args), args, cwd, check)
             p   == Printf(obuf, eff.out, bufmode)
             w   == Deliver(fdt[STDOUT_FILENO], p.flush, out0, files)
         IN  /\ obuf' = p.keep
             /\ out0' = w.out0
             /\ files' = w.files
             /\ err' = err \o eff.errs
             /\ cwd' = eff.cwd
             /\ status' = eff.ret
             /\ call' = [call EXCEPT !.events = Append(@, "handler"),
                                     !.written = eff.out,
                                     !.handler = builtin_match(args),
                                     !.argv = args]
    /\ pc' = "restore"
    /\ UNCHANGED <<eof, nread, line, args, redirection_applied, saved_stdout,
                   fdt, bufmode, flushOnRead, child, exitcode>>

\* lsh_launch in the interpreter: fork(); on failure perror and return 1
Launch(forked) ==
    /\ pc = "dispatch"
    /\ Arg(args, 0) # NULL
    /\ builtin_match(args) = 0
    /\ call' = [call EXCEPT !.events = Append(@, "launch"), !.argv = args]
    /\ IF forked
       THEN /\ child' = [NoChild EXCEPT !.state = "forked",
                                        !.fd1 = fdt[STDOUT_FILENO],
                                        !.cwd = cwd, !.obuf = obuf,
                                        !.argv = args]
            /\ pc' = "wait"
            /\ UNCHANGED <<err, status>>
       ELSE /\ err' = err \o Perror("EAGAIN")
            /\ status' = 1
            /\ pc' = "restore"
            /\ UNCHANGED child
    /\ UNCHANGED <<eof, nread, line, args, redirection_applied, saved_stdout,
                   fdt, obuf, bufmode, flushOnRead, out0, files, cwd, exitcode>>

\* lsh_execute with args[0] == NULL after lsh_redirect cut the vector at
\* index 0: strcmp(NULL, ...) is undefined; the process is killed, or the
\* comparisons come out unequal and lsh_launch is called
DispatchNull(killed) ==
    /\ pc = "dispatch"
    /\ Arg(args, 0) = NULL
    /\ IF killed
       THEN /\ pc' = "crashed"
            /\ exitcode' = 139
            /\ UNCHANGED <<child, call>>
       ELSE /\ child' = [NoChild EXCEPT !.state = "forked",
                                        !.fd1 = fdt[STDOUT_FILENO],
                                        !.cwd = cwd, !.obuf = obuf,
                                        !.argv = args]
            /\ call' = [call EXCEPT !.events = Append(@, "launch"), !.argv = args]
            /\ pc' = "wait"
            /\ UNCHANGED exitcode
    /\ UNCHANGED <<eof, nread, line, args, status, redirection_applied,
                   saved_stdout, fdt, obuf, bufmode, flushOnRead, out0, files,
                   err, cwd>>

\* a child that is not ended after execvp returned -1: it returns from
\* lsh_launch into the read-execute loop
child_exec_failed_noexit(c) == [c EXCEPT !.state = "returned"]

\* lsh_launch in the child after execvp returned -1: perror, then
\* exit(EXIT_FAILURE), which writes out the child's copy of the stdio buffer
child_exec_failed(c) ==
    [c EXCEPT !.state = "exited", !.code = EXIT_FAILURE, !.obuf = <<>>]

\* lsh_launch in the child: execvp(args[0], args)
ChildExec ==
    /\ child.state = "forked"
    /\ IF Arg(child.argv, 0) = NULL
       THEN /\ child' = [child EXCEPT !.state = "signaled", !.obuf = <<>>]
            /\ UNCHANGED <<out0, files, err>>
       ELSE IF Arg(child.argv, 0) \in Programs
       THEN /\ child' = [child EXCEPT !.state = "running", !.obuf = <<>>]
            /\ UNCHANGED <<out0, files, err>>
       ELSE LET w == Deliver(child.fd1, child.obuf, out0, files)
            IN  /\ child' = child_exec_failed(child)
                /\ err' = err \o Perror("ENOENT")
                /\ out0' = w.out0
                /\ files' = w.files
    /\ UNCHANGED <<pc, eof, nread, line, args, status, redirection_applied,
                   saved_stdout, fdt, obuf, bufmode, flushOnRead, cwd,
                   exitcode, call>>

\* the program the child became writes its output and exits with a code
ChildExit(code) ==
    /\ child.state = "running"
    /\ LET w == Deliver(child.fd1, ProgOut, out0, files)
       IN  /\ out0' = w.out0
           /\ files' = w.files
    /\ child' = [child EXCEPT !.state = "exited", !.code = code]
    /\ UNCHANGED <<pc, eof, nread, line, args, status, redirection_applied,
                   saved_stdout, fdt, obuf, bufmode, flushOnRead, err, cwd,
                   exitcode, call>>

\* the program is killed by a signal
ChildKilled ==
    /\ child.state = "running"
    /\ child' = [child EXCEPT !.state = "signaled"]
    /\ UNCHANGED <<pc, eof, nread, line, args, status, redirection_applied,
                   saved_stdout, fdt, obuf, bufmode, flushOnRead, out0, files,
                   err, cwd, exitcode, call>>

\* the program is stopped by a signal
ChildStop ==
    /\ child.state = "running"
    /\ child.stops < MaxStops
    /\ child' = [child EXCEPT !.state = "stopped", !.stops = @ + 1,
                              !.reported = FALSE]
    /\ UNCHANGED <<pc, eof, nread, line, args, status, redirection_applied,
                   saved_stdout, fdt, obuf, bufmode, flushOnRead, out0, files,
                   err, cwd, exitcode, call>>

\* the stopped program is continued
ChildCont ==
    /\ child.state = "stopped"
    /\ child' = [child EXCEPT !.state = "running"]
    /\ UNCHANGED <<pc, eof, nread, line, args, status, redirection_applied,
                   saved_stdout, fdt, obuf, bufmode, flushOnRead, out0, files,
                   err, cwd, exitcode, call>>

\* waitpid(pid, &status, WUNTRACED) returns: the child exited, was killed,
\* or is stopped and the stop has not been reported yet
Reportable(c) ==
    c.state \in {"exited", "signaled"} \/ (c.state = "stopped" /\ ~c.reported)

\* a wait loop that ends at the first report of waitpid, whatever it is
wait_loop_ends_at_once(state) == TRUE

\* the negation of the condition of lsh_launch's do-while loop:
\* !( !WIFEXITED(status) && !WIFSIGNALED(status) )
wait_loop_ends(state) == state \in {"exited", "signaled"}

\* lsh_launch in the interpreter: waitpid reports a state that is neither
\* WIFEXITED nor WIFSIGNALED, so the loop waits again on the same child
WaitAgain ==
    /\ pc = "wait"
    /\ Reportable(child)
    /\ ~wait_loop_ends(child.state)
    /\ child' = [child EXCEPT !.reported = TRUE]
    /\ call' = [call EXCEPT !.events = Append(@, "stopped")]
    /\ UNCHANGED <<pc, eof, nread, line, args, status, redirection_applied,
                   saved_stdout, fdt, obuf, bufmode, flushOnRead, out0, files,
                   err, cwd, exitcode>>

\* lsh_launch in the interpreter: waitpid reports that the child exited or
\* was killed; the loop ends and lsh_launch returns 1
WaitDone ==
    /\ pc = "wait"
    /\ Reportable(child)
    /\ wait_loop_ends(child.state)
    /\ status' = 1
    /\ call' = [call EXCEPT !.events = Append(@, "waited")]
    /\ pc' = "restore"
    /\ UNCHANGED <<eof, nread, line, args, redirection_applied, saved_stdout,
                   fdt, obuf, bufmode, flushOnRead, out0, files, err, cwd,
                   child, exitcode>>

\* a restore step that is left out
restore_skipped(applied, saved, t) == t

\* a restore step that copies descriptor 1 onto the saved descriptor
restore_swapped(applied, saved, t) ==
    IF applied # 0 THEN close(dup2(t, STDOUT_FILENO, saved), saved) ELSE t

\* a restore step that leaves the saved descriptor open
restore_noclose(applied, saved, t) ==
    IF applied # 0 THEN dup2(t, saved, STDOUT_FILENO) ELSE t

\* lsh_execute after the handler or lsh_launch returned:
\* if(redirection_applied){ dup2(saved_stdout, STDOUT_FILENO); close(saved_stdout); }
\* and return result
restore_fdt(applied, saved, t) ==
    IF applied # 0 THEN close(dup2(t, saved, STDOUT_FILENO), saved) ELSE t

Restore ==
    /\ pc = "restore"
    /\ fdt' = restore_fdt(redirection_applied, saved_stdout, fdt)
    /\ call' = [call EXCEPT !.events =
                    IF redirection_applied # 0
                    THEN @ \o <<"restore", "return">>
                    ELSE Append(@, "return")]
    /\ pc' = "loopend"
    /\ UNCHANGED <<eof, nread, line, args, status, redirection_applied,
                   saved_stdout, obuf, bufmode, flushOnRead, out0, files, err,
                   cwd, child, exitcode>>

\* lsh_loop: free(line); free(args); while(status); and, when the loop
\* ends, main returns EXIT_SUCCESS, which writes out the stdio buffer
LoopEnd ==
    /\ pc = "loopend"
    /\ IF status # 0
       THEN /\ pc' = "prompt"
            /\ UNCHANGED <<obuf, out0, files, exitcode>>
       ELSE LET w == Deliver(fdt[STDOUT_FILENO], obuf, out0, files)
            IN  /\ pc' = "done"
                /\ obuf' = <<>>
                /\ out0' = w.out0
                /\ files' = w.files
                /\ exitcode' = EXIT_SUCCESS
    /\ redirection_applied' = 0
    /\ saved_stdout' = -1
    /\ child' = NoChild
    /\ UNCHANGED <<eof, nread, line, args, status, fdt, bufmode, flushOnRead,
                   err, cwd, call>>

Next ==
    \/ Prompt
    \/ \E l \in Lines, end \in BOOLEAN : lsh_read_line(l, end)
    \/ Split
    \/ ExecuteEnter
    \/ DispatchBuiltin
    \/ \E forked \in BOOLEAN : Launch(forked)
    \/ \E killed \in BOOLEAN : DispatchNull(killed)
    \/ ChildExec
    \/ \E code \in {0, 1} : ChildExit(code)
    \/ ChildKilled
    \/ ChildStop
    \/ ChildCont
    \/ WaitAgain
    \/ WaitDone
    \/ Restore
    \/ LoopEnd

Spec == Init /\ [][Next]_vars

-----------------------------------------------------------------------------
(* The tokenizer on every short line *)

SplitChars == {"a", "'", "\"", " ", "\t", "\r", "\n", BEL}

ShortLines == UNION {[1..n -> SplitChars] : n \in 0..MaxLen}

InitSplit ==
    /\ pc = "split"
    /\ eof = FALSE
    /\ nread = 1
    /\ line \in ShortLines
    /\ args = <<>>
    /\ status = 1
    /\ redirection_applied = 0
    /\ saved_stdout = -1
    /\ fdt = [fd \in Fds |-> CASE fd = 0 -> StdinD
                               [] fd = 1 -> OrigOut
                               [] fd = 2 -> StderrD
                               [] OTHER  -> Closed]
    /\ obuf = <<"$ > ">>
    /\ bufmode = "full"
    /\ flushOnRead = FALSE
    /\ out0 = <<>>
    /\ files = <<>>
    /\ err = <<>>
    /\ cwd = Root
    /\ child = NoChild
    /\ exitcode = -1
    /\ call = NoCall

NextSplit == Split

SpecSplit == InitSplit /\ [][NextSplit]_vars

-----------------------------------------------------------------------------
(* Claims *)

IsDelim(c) == c \in {" ", "\t", "\r", "\n", BEL}

\* the maximal runs of non-delimiter characters of s, as <<first, last>>
Runs(s) ==
    {r \in (1..Len(s)) \X (1..Len(s)) :
        /\ r[1] <= r[2]
        /\ \A k \in r[1]..r[2] : ~IsDelim(s[k])
        /\ (r[1] = 1 \/ IsDelim(s[r[1] - 1]))
        /\ (r[2] = Len(s) \/ IsDelim(s[r[2] + 1]))}

\* the k-th run from the left
RunAt(s, k) ==
    CHOOSE r \in Runs(s) : Cardinality({q \in Runs(s) : q[1] < r[1]}) = k - 1

\* C7: the vector lsh_split_line returns is, in order, exactly the maximal
\* runs of non-delimiter characters of the line: no token is empty, none
\* contains a delimiter, and quotes are ordinary characters
C7_TokensAreMaximalRuns ==
    pc = "execute" =>
        /\ Len(args) = Cardinality(Runs(line))
        /\ \A k \in 1..Len(args) :
              /\ args[k] = SubSeq(line, RunAt(line, k)[1], RunAt(line, k)[2])
              /\ Len(args[k]) > 0
              /\ \A i \in 1..Len(args[k]) : ~IsDelim(args[k][i])

\* a line with two tokens separated by two or more delimiters, one of the
\* tokens holding a quote, has been split
C7_Witness ==
    /\ pc = "execute"
    /\ Len(args) = 2
    /\ \E i \in 2..(Len(line) - 2) :
          /\ ~IsDelim(line[i - 1]) /\ IsDelim(line[i])
          /\ IsDelim(line[i + 1]) /\ ~IsDelim(line[i + 2])
    /\ \E k \in 1..2 : args[k][1] \in {"'", "\""}


Count(seq, e) == Cardinality({i \in 1..Len(seq) : seq[i] = e})

Pos(seq, e) == Min({i \in 1..Len(seq) : seq[i] = e} \cup {Len(seq) + 1})

Has(seq, e) == \E i \in 1..Len(seq) : seq[i] = e

\* the strings of a vector joined by single spaces
RECURSIVE JoinSp(_)
JoinSp(v) ==
    IF v = <<>> THEN <<>>
    ELSE IF Len(v) = 1 THEN v[1]
    ELSE v[1] \o <<" ">> \o JoinSp(Tail(v))

\* C1 (as claimed): when lsh_redirect fails, the error is reported,
\* lsh_execute returns 1, neither a builtin handler nor lsh_launch is
\* invoked for the line, and standard output is not changed
C1_FailedRedirectRunsNothing ==
    redirection_applied = -1 =>
        /\ Len(err) > call.nerr
        /\ ~Has(call.events, "handler")
        /\ ~Has(call.events, "launch")
        /\ fdt[STDOUT_FILENO] = call.fd1
        /\ (pc = "loopend" => status = 1)

\* C2: when redirection was applied, by the time lsh_execute returns
\* standard output has been restored from the saved descriptor exactly
\* once, after the handler or lsh_launch returned; until then descriptor 1
\* is the target file and the saved descriptor holds the original stream
C2_RestoredExactlyOnce ==
    redirection_applied = 1 =>
        /\ pc \in {"dispatch", "wait", "restore"} =>
              /\ ~Has(call.events, "restore")
              /\ fdt[STDOUT_FILENO] = FileD(call.target)
              /\ saved_stdout \in Fds
              /\ fdt[saved_stdout] = call.fd1
        /\ pc = "loopend" =>
              /\ Count(call.events, "restore") = 1
              /\ Has(call.events, "handler") \/ Has(call.events, "launch")
              /\ Pos(call.events, "handler") < Pos(call.events, "restore")
                    \/ Pos(call.events, "launch") < Pos(call.events, "restore")
              /\ Has(call.events, "launch") /\ child.state # "none" =>
                    Pos(call.events, "waited") < Pos(call.events, "restore")
              /\ Pos(call.events, "restore") < Pos(call.events, "return")
              /\ fdt[STDOUT_FILENO] = call.fd1
              /\ fdt[saved_stdout] = Closed

\* lsh_execute has returned from a redirected command whose program could
\* not be located
C2_Witness ==
    /\ pc = "loopend"
    /\ redirection_applied = 1
    /\ child.state = "exited"
    /\ child.code = EXIT_FAILURE
    /\ Arg(child.argv, 0) = W_nope

\* C3: whenever lsh_loop is about to prompt for and read the next line,
\* descriptor 1 designates the stream it designated at startup
C3_StdoutIsOriginalAtRead ==
    pc \in {"prompt", "read"} => fdt[STDOUT_FILENO] = OrigOut

\* the loop is about to read a line after a command that was redirected
\* into a file
C3_Witness ==
    /\ pc = "read"
    /\ nread >= 1
    /\ call.target # NULL
    /\ call.target \in DOMAIN files

\* C4 (as claimed): after a builtin run with > the file holds exactly the
\* command's output, with >> its prior content followed by the output;
\* the output of echo being its arguments joined by single spaces and a
\* newline
C4_FileHoldsOutput ==
    (pc = "loopend" /\ redirection_applied = 1 /\ call.handler # 0) =>
        LET prior == IF call.append /\ call.target \in DOMAIN call.files
                     THEN call.files[call.target] ELSE <<>>
            out   == IF call.handler = 5
                     THEN JoinSp(Tail(call.argv)) \o NL
                     ELSE call.written
        IN  files[call.target] = prior \o out

\* C5: lsh_execute returns 0 exactly when the exit builtin was dispatched,
\* and 1 otherwise; once 0 is returned no further line is read and the
\* process has ended with the success code
C5_StopOnlyOnExit ==
    /\ [](pc = "loopend" => /\ status \in {0, 1}
                            /\ status = 0 <=> call.handler = 3)
    /\ [](pc = "done" => status = 0 /\ exitcode = EXIT_SUCCESS)
    /\ [][pc = "loopend" /\ status = 0 => pc' = "done"]_vars
    /\ [][pc = "done" => pc' = "done" /\ nread' = nread]_vars

\* the process ended after exit although lines remained to be read
C5_Witness ==
    /\ pc = "done"
    /\ exitcode = EXIT_SUCCESS
    /\ call.handler = 3
    /\ nread < MaxLines

\* C6: the child forked for a name that is neither a builtin nor a
\* locatable program reports an error and exits with the failure status,
\* it never continues in the read-execute loop, and lsh_execute returns 1
\* in the interpreter
C6_UnknownCommand ==
    (child.state # "none" /\ Arg(child.argv, 0) # NULL
        /\ Arg(child.argv, 0) \notin Programs) =>
        /\ child.state \in {"forked", "exited"}
        /\ child.state = "exited" =>
              /\ child.code = EXIT_FAILURE
              /\ Len(err) > call.nerr
              /\ err[Len(err)] = "lsh: ENOENT"
        /\ pc \in {"wait", "restore", "loopend"}
        /\ pc = "loopend" => status = 1

\* the loop reads the next line after an unknown command
C6_Witness ==
    /\ pc = "read"
    /\ nread = 1
    /\ call.argv = <<W_nope>>
    /\ Has(call.events, "waited")
    /\ Has(err, "lsh: ENOENT")


\* C8: for a line that is empty or holds only delimiters the vector is
\* empty and lsh_execute returns 1 at once: no file is opened or created,
\* no process is forked, nothing is written, and standard output and the
\* working directory stay as they are
C8_BlankLineIsNoOp ==
    [][(pc = "execute" /\ \A i \in 1..Len(line) : IsDelim(line[i])) =>
          /\ args = <<>>
          /\ pc' = "loopend"
          /\ status' = 1
          /\ fdt' = fdt
          /\ files' = files
          /\ out0' = out0
          /\ obuf' = obuf
          /\ err' = err
          /\ cwd' = cwd
          /\ child' = child
          /\ child = NoChild]_vars

\* lsh_execute has returned for a second line that holds delimiters only
C8_Witness ==
    /\ pc = "loopend"
    /\ nread = 2
    /\ Len(line) > 0
    /\ \A i \in 1..Len(line) : IsDelim(line[i])
    /\ call.events = <<"return">>

NoQuote(v) == \A k \in 1..Len(v) : \A i \in 1..Len(v[k]) : v[k][i] \notin {"'", "\""}

\* C9 (as claimed): for arguments without quote characters echo writes
\* the arguments joined by single spaces, then one newline, nothing else
C9_EchoJoinsArguments ==
    (pc = "restore" /\ call.handler = 5 /\ NoQuote(call.argv)) =>
        call.written = JoinSp(Tail(call.argv)) \o NL

\* C10 (as claimed): pwd prints the working directory as it was just
\* before the call, a successful cd makes its directory the working
\* directory that later pwd calls print, and a spawned program starts in
\* the interpreter's working directory
C10_PwdPrintsWorkingDirectory ==
    /\ (pc = "restore" /\ call.handler = 6) =>
          /\ call.written = call.cwd \o NL
          /\ cwd = call.cwd
    /\ (pc = "restore" /\ call.handler = 1 /\ Arg(call.argv, 1) # NULL
          /\ Resolve(call.cwd, Arg(call.argv, 1)) \in Dirs) =>
          cwd = Resolve(call.cwd, Arg(call.argv, 1))
    /\ child.state # "none" => child.cwd = cwd


\* C11: type reports its argument as a shell builtin exactly when the scan
\* of lsh_execute would dispatch that name to a handler, reports every
\* other name as not found without looking for a program, reports an error
\* when it has no argument, and returns 1 in all cases
C11_TypeAgreesWithDispatch ==
    (pc = "restore" /\ call.handler = 4) =>
        LET name == Arg(call.argv, 1)
        IN  /\ status = 1
            /\ child = NoChild
            /\ ~Has(call.events, "launch")
            /\ name = NULL =>
                  /\ call.written = <<>>
                  /\ Len(err) > call.nerr
                  /\ err[Len(err)] = "lsh: expected argument to \"type\" \n"
            /\ (name # NULL /\ builtin_match(<<name>>) # 0) =>
                  call.written = name \o <<" is a shell builtin ", "\n">>
            /\ (name # NULL /\ builtin_match(<<name>>) = 0) =>
                  call.written = <<"lsh: ">> \o name \o <<" not found ", "\n">>

\* type has reported the last builtin of the table as a builtin
C11_Witness ==
    /\ pc = "restore"
    /\ call.handler = 4
    /\ Arg(call.argv, 1) = W_pwd
    /\ call.written = W_pwd \o <<" is a shell builtin ", "\n">>

\* C12 (as claimed): whenever lsh_execute compares args[0] with the builtin
\* names or hands the vector to lsh_launch, args[0] is a non-empty string
C12_CommandNamePresent ==
    /\ pc = "dispatch" => (Arg(args, 0) # NULL /\ Len(Arg(args, 0)) > 0)
    /\ child.state # "none" => Arg(child.argv, 0) # NULL

\* the tokens of s that precede its leftmost ">" or ">>" token, all of
\* them if there is none
BeforeOperator(toks) ==
    LET ops == {k \in 1..Len(toks) : toks[k] = W_gt \/ toks[k] = W_gtgt}
    IN  IF ops = {} THEN toks ELSE SubSeq(toks, 1, Min(ops) - 1)

\* C13: the vector the builtin handler or the external program receives
\* is the tokens of the line before the leftmost redirection operator (the
\* operator, the filename and what follows are left out), and the whole
\* vector when there is no operator
C13_CommandGetsTokensBeforeOperator ==
    /\ (pc \in {"wait", "restore", "loopend"}
          /\ (Has(call.events, "handler") \/ Has(call.events, "launch"))) =>
          call.argv = BeforeOperator(lsh_split_line(line))
    /\ child.state # "none" =>
          child.argv = BeforeOperator(lsh_split_line(line))

\* echo has run for a line with a token after the filename
C13_Witness ==
    /\ pc = "restore"
    /\ call.handler = 5
    /\ line = L_echo_gt_f_b
    /\ call.argv = <<W_echo, W_a>>
    /\ redirection_applied = 1

\* C14 (as claimed): the restore step runs only when lsh_redirect replaced
\* standard output, never after it returned 0 or -1, so never with
\* saved_stdout equal to -1
C14_RestoreOnlyWhenApplied ==
    (pc = "loopend" /\ Has(call.events, "restore")) =>
        (redirection_applied = 1 /\ saved_stdout # -1)

\* C15: lsh_launch returns in the interpreter only after waitpid reported
\* the child as exited or killed; a report of a stop leaves it waiting for
\* the same child; and it returns 1 whatever the child's end, also when
\* fork failed
C15_LaunchWaitsForTheEnd ==
    /\ [][(pc = "wait" /\ pc' # "wait") =>
             /\ child.state \in {"exited", "signaled"}
             /\ child' = child
             /\ pc' = "restore"
             /\ status' = 1]_vars
    /\ [][(pc = "wait" /\ child.state = "stopped"
              /\ call'.events # call.events) =>
             /\ pc' = "wait"
             /\ child'.state = "stopped"
             /\ child'.argv = child.argv]_vars
    /\ []((pc \in {"restore", "loopend"} /\ Has(call.events, "launch")) =>
             /\ status = 1
             /\ child.state \in {"none", "exited", "signaled"})

\* lsh_launch has returned for a program that was stopped, continued and
\* then exited with a failure code
C15_Witness ==
    /\ pc = "loopend"
    /\ Has(call.events, "stopped")
    /\ child.state = "exited"
    /\ child.code = 1
    /\ Arg(child.argv, 0) = W_ls
    /\ status = 1


\* C16 (as claimed): no byte crosses a switch of descriptor 1: nothing
\* written before the redirection is pending in the buffer of stdout when
\* the command is dispatched, nothing the command wrote is pending when
\* standard output is restored, and the prompt never reaches a file
C16_NoBytesAcrossSwitch ==
    /\ (redirection_applied = 1 /\ pc = "dispatch") => obuf = <<>>
    /\ (redirection_applied = 1 /\ pc = "restore") => obuf = <<>>
    /\ \A f \in DOMAIN files : ~Has(files[f], "$ > ")

\* C17: for a vector whose element 0 is present, the handler of a builtin
\* runs, once, exactly when element 0 equals that builtin's name, and then
\* no child is forked; otherwise lsh_launch is called once and no handler
\* runs
C17_ExactDispatch ==
    /\ (pc = "loopend" /\ Len(BeforeOperator(lsh_split_line(line))) > 0) =>
          Len(call.argv) > 0
    /\ (pc \in {"wait", "restore", "loopend"} /\ Len(call.argv) > 0) =>
          LET name == call.argv[1]
          IN  IF \E i \in 1..Len(builtin_str) : builtin_str[i] = name
              THEN /\ Count(call.events, "handler") = 1
                   /\ call.handler \in 1..Len(builtin_str)
                   /\ builtin_str[call.handler] = name
                   /\ ~Has(call.events, "launch")
                   /\ child = NoChild
              ELSE /\ Count(call.events, "launch") = 1
                   /\ ~Has(call.events, "handler")
                   /\ call.handler = 0

\* a proper prefix of a builtin name has been handed to lsh_launch
C17_Witness ==
    /\ pc = "loopend"
    /\ call.argv = <<L_pw>>
    /\ Has(call.events, "launch")
    /\ call.handler = 0

\* C18 (as claimed, in the form a finite run refutes): when end-of-input
\* has been reached and lsh_execute has returned, the loop condition is
\* false and the loop stops
C18_LoopStopsAtEndOfInput ==
    (eof /\ pc = "loopend") => status = 0

\* C19: the working directory changes only in the cd handler, for an
\* argument that chdir accepts, and becomes that directory; cd without an
\* argument or with a path chdir rejects reports an error, leaves the
\* working directory as it was and returns 1
C19_OnlyCdChangesDirectory ==
    /\ [][cwd' # cwd =>
             /\ pc = "dispatch"
             /\ Arg(args, 0) = W_cd
             /\ Arg(args, 1) # NULL
             /\ Resolve(cwd, Arg(args, 1)) \in Dirs
             /\ cwd' = Resolve(cwd, Arg(args, 1))]_vars
    /\ []((pc = "restore" /\ call.handler = 1
             /\ (Arg(call.argv, 1) = NULL
                   \/ Resolve(call.cwd, Arg(call.argv, 1)) \notin Dirs)) =>
             /\ cwd = call.cwd
             /\ status = 1
             /\ Len(err) > call.nerr)

\* a cd to a path that does not exist has returned after an earlier cd
\* had changed the directory
C19_Witness ==
    /\ pc = "restore"
    /\ call.handler = 1
    /\ Arg(call.argv, 1) = W_x
    /\ cwd = DirD
    /\ err[Len(err)] = "lsh: ENOENT"

\* C20: when lsh_execute has returned, and whenever the loop is about to
\* read, the open descriptors are those that were open before the call
C20_DescriptorsBalanced ==
    /\ pc = "loopend" => OpenFds(fdt) = call.fds
    /\ pc \in {"prompt", "read"} => OpenFds(fdt) = {0, 1, 2}

\* lsh_execute has returned from a redirected command whose fork failed
C20_Witness ==
    /\ pc = "loopend"
    /\ redirection_applied = 1
    /\ Has(call.events, "launch")
    /\ child.state = "none"
    /\ call.target \in DOMAIN files

-----------------------------------------------------------------------------
(* lsh_redirect on every short sequence of tokens *)

W_agtb == <<"a", ">", "b">>
W_gtf  == <<">", "f">>

RedirectTokens == {W_gt, W_gtgt, W_a, W_f, W_agtb, W_gtf}

RedirectLines ==
    {JoinSp(v) : v \in UNION {[1..n -> RedirectTokens] : n \in 0..MaxToks}}

InitRedirect ==
    /\ pc = "split"
    /\ eof = FALSE
    /\ nread = 1
    /\ line \in RedirectLines
    /\ args = <<>>
    /\ status = 1
    /\ redirection_applied = 0
    /\ saved_stdout = -1
    /\ fdt = [fd \in Fds |-> CASE fd = 0 -> StdinD
                               [] fd = 1 -> OrigOut
                               [] fd = 2 -> StderrD
                               [] OTHER  -> Closed]
    /\ obuf = <<>>
    /\ bufmode = "line"
    /\ flushOnRead = TRUE
    /\ out0 = <<"$ > ">>
    /\ files \in {<<>>, (Resolve(Root, W_f) :> OldContent)}
    /\ err = <<>>
    /\ cwd = Root
    /\ child = NoChild
    /\ exitcode = -1
    /\ call = NoCall

NextRedirect ==
    \/ Split
    \/ ExecuteEnter

SpecRedirect == InitRedirect /\ [][NextRedirect]_vars

\* C21 (as claimed): what echo writes is determined by its argument vector:
\* whatever the quote marker `check` held when the loop started, the bytes
\* are the ones that were written
C21_EchoIsFunctionOfArguments ==
    (pc = "restore" /\ call.handler = 5) =>
        \A check \in CheckValues(call.argv) :
            call.written = lsh_echo(call.argv, call.cwd, check).out

\* the positions (from 1) of the tokens that are exactly ">" or ">>"
Operators(toks) == {k \in 1..Len(toks) : toks[k] = W_gt \/ toks[k] = W_gtgt}

\* C22: lsh_redirect acts on the leftmost token that is exactly ">" or
\* ">>": that token gives the mode (">" empties the file, ">>" keeps its
\* content), the token after it names the file, standard output becomes
\* that file and no other file is touched; later operators are ignored,
\* and without such a token (tokens that only contain ">" included) there
\* is no redirection at all
C22_LeftmostExactOperator ==
    pc = "dispatch" =>
        LET toks == lsh_split_line(line)
            ops  == Operators(toks)
        IN  IF ops = {}
            THEN /\ redirection_applied = 0
                 /\ args = toks
                 /\ files = call.files
                 /\ OpenFds(fdt) = call.fds
                 /\ fdt[STDOUT_FILENO] = call.fd1
            ELSE LET k    == Min(ops)
                     name == Arg(toks, k)
                     path == Resolve(call.cwd, name)
                 IN  /\ redirection_applied \in {1, -1}
                     /\ args = SubSeq(toks, 1, k - 1)
                     /\ call.append = (toks[k] = W_gtgt)
                     /\ redirection_applied = -1 =>
                           /\ files = call.files
                           /\ fdt[STDOUT_FILENO] = call.fd1
                     /\ redirection_applied = 1 =>
                           /\ name # NULL
                           /\ call.target = path
                           /\ fdt[STDOUT_FILENO] = FileD(path)
                           /\ DOMAIN files = DOMAIN call.files \cup {path}
                           /\ \A q \in DOMAIN call.files \ {path} :
                                 files[q] = call.files[q]
                           /\ files[path] =
                                 IF toks[k] = W_gtgt /\ path \in DOMAIN call.files
                                 THEN call.files[path] ELSE <<>>

\* a line with an earlier token that contains ">", then ">>", a filename
\* and a later ">" has been redirected: the file kept its content
C22_Witness ==
    /\ pc = "dispatch"
    /\ lsh_split_line(line) = <<W_agtb, W_gtgt, W_f, W_gt>>
    /\ redirection_applied = 1
    /\ args = <<W_agtb>>
    /\ files[Resolve(Root, W_f)] = OldContent

====
